---- MODULE Spec2Model ----
(***************************************************************************)
(* A model of the java-rand crate (src/src/lib.rs): the 48-bit linear      *)
(* congruential generator `Random` and every value derived from it.        *)
(*                                                                         *)
(* Representation.  TLC's integers are 32 bits wide, the program's are up to *)
(* 64 bits wide (and the exact products behind the f64 arithmetic up to    *)
(* 107 bits), so an unsigned machine word is a sequence                    *)
(* of bytes, least significant byte first: a u64 is 8 bytes, a u32 is 4.   *)
(* A two's-complement signed word is the byte sequence of its bit pattern. *)
(* Values that fit 32 signed bits (i32, the 24-bit f32 numerator, byte     *)
(* values) are plain integers.                                             *)
(***************************************************************************)
EXTENDS Integers, Sequences, FiniteSets, TLC

\* ------------------------------------------------------------------------
\* Bounds of the model.
\* ------------------------------------------------------------------------

\* The number of operations performed on one instance after construction.
MaxSteps == 2

\* The longest buffer handed to next_bytes.
MaxBuf == 5

\* The number of operations performed on one instance in the sweeps of the arguments
\* of next and of the power-of-two bounds of next_i32_bound.
SweepDepth == 1

\* The largest `bits` the sweep hands to next (49 and above panic).
MaxBits == 49

\* ------------------------------------------------------------------------
\* Machine words as little-endian byte sequences.
\* ------------------------------------------------------------------------

\* i32::MAX
I32_MAX == 2147483647

\* i32::MIN
I32_MIN == (-2147483647) - 1

\* 2^k for 0 <= k <= 30.
RECURSIVE Pow2(_)
Pow2(k) == IF k = 0 THEN 1 ELSE 2 * Pow2(k - 1)

\* Byte i (1-based) of a word, zero above its width.
ByteAt(a, i) == IF i >= 1 /\ i <= Len(a) THEN a[i] ELSE 0

\* A word cut or zero-extended to n bytes (an `as uN` cast between unsigned widths).
Resize(a, n) == [i \in 1..n |-> ByteAt(a, i)]

\* The n-byte word of a small non-negative integer.
RECURSIVE FromInt(_, _)
FromInt(v, n) == IF n = 0 THEN << >> ELSE <<v % 256>> \o FromInt(v \div 256, n - 1)

\* The integer of a word whose value is below 2^31.
RECURSIVE ToInt(_)
ToInt(a) == IF Len(a) = 0 THEN 0 ELSE a[1] + 256 * ToInt(Tail(a))

\* TRUE iff every byte of the word is zero.
IsZero(a) == \A i \in 1..Len(a) : a[i] = 0

\* x & y, x ^ y on single bytes, bit by bit.
RECURSIVE BitAnd(_, _, _)
BitAnd(x, y, n) ==
  IF n = 0 THEN 0
  ELSE (IF x % 2 = 1 /\ y % 2 = 1 THEN 1 ELSE 0) + 2 * BitAnd(x \div 2, y \div 2, n - 1)

RECURSIVE BitXor(_, _, _)
BitXor(x, y, n) ==
  IF n = 0 THEN 0
  ELSE (IF x % 2 # y % 2 THEN 1 ELSE 0) + 2 * BitXor(x \div 2, y \div 2, n - 1)

\* a & b and a ^ b on words of the width of a.
AndWord(a, b) == [i \in 1..Len(a) |-> BitAnd(a[i], ByteAt(b, i), 8)]

XorWord(a, b) == [i \in 1..Len(a) |-> BitXor(a[i], ByteAt(b, i), 8)]

\* Bytes i..n of a + b + carry: addition that wraps at n bytes.
RECURSIVE AddFrom(_, _, _, _, _)
AddFrom(a, b, i, n, carry) ==
  IF i > n THEN << >>
  ELSE LET s == ByteAt(a, i) + ByteAt(b, i) + carry
       IN  <<s % 256>> \o AddFrom(a, b, i + 1, n, s \div 256)

\* a.wrapping_add(b) at a width of n bytes.
WrappingAdd(a, b, n) == AddFrom(a, b, 1, n, 0)

\* Bytes i..n of a - b - borrow (a >= b is not required: the result wraps).
RECURSIVE SubFrom(_, _, _, _, _)
SubFrom(a, b, i, n, borrow) ==
  IF i > n THEN << >>
  ELSE LET d == ByteAt(a, i) - ByteAt(b, i) - borrow
       IN  <<d % 256>> \o SubFrom(a, b, i + 1, n, IF d < 0 THEN 1 ELSE 0)

WrappingSub(a, b, n) == SubFrom(a, b, 1, n, 0)

\* The sum of the byte products a[i] * b[k + 1 - i], i in lo..k: column k of a * b.
RECURSIVE Column(_, _, _, _)
Column(a, b, k, i) ==
  IF i > k THEN 0 ELSE ByteAt(a, i) * ByteAt(b, k + 1 - i) + Column(a, b, k, i + 1)

\* Bytes k..n of a * b, given the carry into column k.
RECURSIVE MulFrom(_, _, _, _, _)
MulFrom(a, b, k, n, carry) ==
  IF k > n THEN << >>
  ELSE LET s == Column(a, b, k, 1) + carry
       IN  <<s % 256>> \o MulFrom(a, b, k + 1, n, s \div 256)

\* a.wrapping_mul(b) at a width of n bytes.
WrappingMul(a, b, n) == MulFrom(a, b, 1, n, 0)

\* -1, 0, 1 as a < b, a = b, a > b (unsigned), comparing from byte i downwards.
RECURSIVE CmpFrom(_, _, _)
CmpFrom(a, b, i) ==
  IF i = 0 THEN 0
  ELSE IF ByteAt(a, i) < ByteAt(b, i) THEN -1
  ELSE IF ByteAt(a, i) > ByteAt(b, i) THEN 1
  ELSE CmpFrom(a, b, i - 1)

Cmp(a, b) == CmpFrom(a, b, IF Len(a) > Len(b) THEN Len(a) ELSE Len(b))

\* a >> k on a word (logical shift, the width is kept).
ShiftRight(a, k) ==
  LET q == k \div 8
      r == k % 8
  IN  [i \in 1..Len(a) |->
         (ByteAt(a, i + q) \div Pow2(r)) + (ByteAt(a, i + q + 1) % Pow2(r)) * Pow2(8 - r)]

\* a << k on a word (bits shifted past the width are lost).
ShiftLeft(a, k) ==
  LET q == k \div 8
      r == k % 8
  IN  [i \in 1..Len(a) |->
         ((ByteAt(a, i - q) * Pow2(r)) % 256) + (ByteAt(a, i - q - 1) \div Pow2(8 - r))]

\* The number of significant bits of a byte and of a word.
RECURSIVE ByteBits(_)
ByteBits(x) == IF x = 0 THEN 0 ELSE 1 + ByteBits(x \div 2)

RECURSIVE BitLenFrom(_, _)
BitLenFrom(a, i) ==
  IF i = 0 THEN 0
  ELSE IF a[i] # 0 THEN 8 * (i - 1) + ByteBits(a[i])
  ELSE BitLenFrom(a, i - 1)

BitLen(a) == BitLenFrom(a, Len(a))

\* a rounded to p significant bits, ties to even: the value an IEEE-754 format with
\* a p-bit significand gives an integer (or an exact product or sum) of this size.
\* The steps are operators of their intermediate values: q, the k bits dropped
\* (a >> k), and c, the comparison of the dropped bits with half a unit of q.
RoundUp(q, k, c) ==
  ShiftLeft(IF c > 0 \/ (c = 0 /\ q[1] % 2 = 1)
              THEN WrappingAdd(q, FromInt(1, Len(q)), Len(q))
              ELSE q,
            k)

RoundQuotient(a, k, q) ==
  RoundUp(q, k, Cmp(WrappingSub(a, ShiftLeft(q, k), Len(a)),
                    ShiftLeft(FromInt(1, Len(a)), k - 1)))

RoundDrop(a, k) == IF k <= 0 THEN a ELSE RoundQuotient(a, k, ShiftRight(a, k))

RoundNearestEven(a, p) == RoundDrop(a, BitLen(a) - p)

\* `w as i32` for a 4-byte word: the two's-complement value of its bit pattern.
AsI32(w) ==
  IF w[4] >= 128
    THEN ToInt(<<w[1], w[2], w[3], w[4] - 128>>) + I32_MIN
    ELSE ToInt(w)

\* `v as u32` for an i32: the 4-byte word of its bit pattern.
AsU32(v) ==
  IF v >= 0 THEN FromInt(v, 4)
  ELSE LET low == FromInt(v - I32_MIN, 4)
       IN  <<low[1], low[2], low[3], low[4] + 128>>

\* a + b on i32, with the flag that the exact sum left the i32 range and the value
\* the wrapped sum has.
I32Add(a, b) ==
  IF b > 0 /\ a > I32_MAX - b
    THEN [overflow |-> TRUE, value |-> ((a - I32_MAX) + (b - I32_MAX)) - 2]
  ELSE IF b < 0 /\ a < I32_MIN - b
    THEN [overflow |-> TRUE, value |-> ((a - I32_MIN) + (b - I32_MIN))]
  ELSE [overflow |-> FALSE, value |-> a + b]

\* u32::is_power_of_two
RECURSIVE is_power_of_two(_)
is_power_of_two(x) ==
  IF x <= 0 THEN FALSE
  ELSE IF x = 1 THEN TRUE
  ELSE x % 2 = 0 /\ is_power_of_two(x \div 2)

\* ------------------------------------------------------------------------
\* The constants of the generator.
\* ------------------------------------------------------------------------

\* Modulus mask, (1 << 48) - 1, as an i64 bit pattern.
M == <<255, 255, 255, 255, 255, 255, 0, 0>>

\* Multiplier, 0x5DEECE66D.
A == <<109, 230, 236, 222, 5, 0, 0, 0>>

\* Increment, 11.
C == <<11, 0, 0, 0, 0, 0, 0, 0>>

\* log2 of F32_DIV = (1 << 24) and of F64_DIV = (1 << 53).
F32_DIV_LOG2 == 24

F64_DIV_LOG2 == 53

\* Option<f64>: None is the empty sequence, Some(v) the sequence <<v>>.
None == << >>

Some(v) == <<v>>

\* ------------------------------------------------------------------------
\* Random: a record [state, next_gaussian].  Every method is an operator from
\* the instance (and its arguments) to a record
\*   [self  |-> the instance when the call returns or panics,
\*    ret   |-> the value returned (NoValue after a panic or for `()`),
\*    draws |-> the number of calls of next() that advanced the state,
\*    panic |-> TRUE iff the call panicked].
\* ------------------------------------------------------------------------

NoValue == "none"

Returned(self, ret, draws) == [self |-> self, ret |-> ret, draws |-> draws, panic |-> FALSE]

Panicked(self, draws) == [self |-> self, ret |-> NoValue, draws |-> draws, panic |-> TRUE]

\* Random::new(seed): the seed is a u64, 8 bytes.
new(seed) == [state |-> AndWord(XorWord(seed, A), M), next_gaussian |-> None]

\* Mutant of set_seed: the state is reseeded, the cached deviate is kept.
set_seed_keeps_cache(self, seed) ==
  Returned([self EXCEPT !.state = AndWord(XorWord(seed, A), M)], NoValue, 0)

\* Random::set_seed
set_seed(self, seed) == Returned(new(seed), NoValue, 0)

\* Mutant of Advance: the `& M` is left out.
AdvanceUnmasked(state) == WrappingAdd(WrappingMul(state, A, 8), C, 8)

\* The state after one step: (state * A + C) & M on Wrapping<i64>.
Advance(state) == AndWord(WrappingAdd(WrappingMul(state, A, 8), C, 8), M)

\* Mutant of next: the state is shifted by `bits` instead of `48 - bits`.
next_shift_by_bits(self, bits) ==
  IF bits > 48 THEN Panicked(self, 0)
  ELSE Returned([self EXCEPT !.state = AndWord(WrappingAdd(WrappingMul(self.state, A, 8), C, 8), M)],
                ShiftRight(AndWord(WrappingAdd(WrappingMul(self.state, A, 8), C, 8), M), bits),
                1)

\* Mutant of next: the state is advanced before `bits` is checked.
next_checks_after_step(self, bits) ==
  IF bits > 48
    THEN Panicked([self EXCEPT !.state = AndWord(WrappingAdd(WrappingMul(self.state, A, 8), C, 8), M)], 0)
    ELSE Returned([self EXCEPT !.state = AndWord(WrappingAdd(WrappingMul(self.state, A, 8), C, 8), M)],
                  ShiftRight(AndWord(WrappingAdd(WrappingMul(self.state, A, 8), C, 8), M), 48 - bits),
                  1)

\* Random::next(bits), bits a u8.
next(self, bits) ==
  IF bits > 48 THEN Panicked(self, 0)
  ELSE LET st == Advance(self.state)
       IN  Returned([self EXCEPT !.state = st], ShiftRight(st, 48 - bits), 1)

\* Random::next_i32
next_i32(self) ==
  LET d == next(self, 32)
  IN  Returned(d.self, AsI32(Resize(d.ret, 4)), d.draws)

\* Random::next_u32
next_u32(self) ==
  LET d == next(self, 32)
  IN  Returned(d.self, Resize(d.ret, 4), d.draws)

\* Mutant of FillChunk: the bytes of a block are taken most significant first.
RECURSIVE FillChunkHighFirst(_, _)
FillChunkHighFirst(block, n) ==
  IF n = 0 THEN << >>
  ELSE <<ShiftRight(block, 24)[1]>> \o FillChunkHighFirst(ShiftLeft(block, 8), n - 1)

\* The inner loop of next_bytes: the low bytes of a block, one per item of the chunk.
RECURSIVE FillChunk(_, _)
FillChunk(block, n) ==
  IF n = 0 THEN << >>
  ELSE <<AndWord(block, <<255, 0, 0, 0>>)[1]>> \o FillChunk(ShiftRight(block, 8), n - 1)

\* Random::next_bytes on a buffer of n bytes; ret is the buffer as the call leaves it.
RECURSIVE next_bytes(_, _)
next_bytes(self, n) ==
  IF n = 0 THEN Returned(self, << >>, 0)
  ELSE LET len  == IF n < 4 THEN n ELSE 4
           d    == next_u32(self)
           rest == next_bytes(d.self, n - len)
       IN  Returned(rest.self, FillChunk(d.ret, len) \o rest.ret, d.draws + rest.draws)

\* The rejection loop of next_i32_bound, entered with the draw `bits` and val = bits % max.
\* `bits - val + (max - 1)` is plain i32 arithmetic: where the sum leaves the i32 range
\* a build with overflow checks (debug-assertions, the `dev` and `test` profiles) panics
\* and a build without them (the `release` profile) wraps.
RECURSIVE BoundLoop(_, _, _, _, _, _)
BoundLoop(self, bits, val, max, overflow_checks, draws) ==
  LET sum == I32Add(bits - val, max - 1)
  IN  IF sum.overflow /\ overflow_checks THEN Panicked(self, draws)
      ELSE IF sum.value < 0
        THEN LET d == next(self, 31)
                 b == AsI32(Resize(d.ret, 4))
             IN  BoundLoop(d.self, b, b % max, max, overflow_checks, draws + d.draws)
      ELSE Returned(self, val, draws)

\* Mutant of next_i32_bound: the fast path shifts by 30 instead of 31.
next_i32_bound_shift_30(self, max, overflow_checks) ==
  IF max <= 0 THEN Panicked(self, 0)
  ELSE IF is_power_of_two(max)
    THEN Returned(next(self, 31).self,
                  AsI32(Resize(ShiftRight(WrappingMul(FromInt(max, 8), next(self, 31).ret, 8), 30), 4)),
                  1)
  ELSE BoundLoop(next(self, 31).self,
                 AsI32(Resize(next(self, 31).ret, 4)),
                 AsI32(Resize(next(self, 31).ret, 4)) % max,
                 max, overflow_checks, 1)

\* Mutant of next_i32_bound: no fast path, a power of two takes the general path.
next_i32_bound_modulo(self, max, overflow_checks) ==
  IF max <= 0 THEN Panicked(self, 0)
  ELSE BoundLoop(next(self, 31).self,
                 AsI32(Resize(next(self, 31).ret, 4)),
                 AsI32(Resize(next(self, 31).ret, 4)) % max,
                 max, overflow_checks, 1)

\* Random::next_i32_bound(max), max an i32.
next_i32_bound(self, max, overflow_checks) ==
  IF max <= 0 THEN Panicked(self, 0)
  ELSE IF is_power_of_two(max)
    THEN LET d == next(self, 31)
         IN  Returned(d.self,
                      AsI32(Resize(ShiftRight(WrappingMul(FromInt(max, 8), d.ret, 8), 31), 4)),
                      d.draws)
  ELSE LET d    == next(self, 31)
           bits == AsI32(Resize(d.ret, 4))
       IN  BoundLoop(d.self, bits, bits % max, max, overflow_checks, d.draws)

\* Random::next_u32_bound(max), max a u32 (4 bytes).
next_u32_bound(self, max, overflow_checks) ==
  LET r == next_i32_bound(self, AsI32(max), overflow_checks)
  IN  IF r.panic THEN r ELSE Returned(r.self, AsU32(r.ret), r.draws)

\* Random::next_u64
next_u64(self) ==
  LET hi == next(self, 32)
      lo == next(hi.self, 32)
  IN  Returned(lo.self, WrappingAdd(ShiftLeft(hi.ret, 32), lo.ret, 8), hi.draws + lo.draws)

\* Random::next_i64: the same bit pattern, read as an i64.
next_i64(self) == next_u64(self)

\* Random::next_bool
next_bool(self) ==
  LET d == next(self, 1)
  IN  Returned(d.self, Cmp(d.ret, FromInt(1, 8)) = 0, d.draws)

\* A float whose value is the dyadic rational (-1)^neg * num / 2^exp, num a word.
\* `w as f32` and `w as f64` round the integer to 24 and 53 significant bits.
Dyadic(neg, num, exp) == [neg |-> neg, num |-> num, exp |-> exp]

\* Random::next_f32
next_f32(self) ==
  LET d == next(self, 24)
  IN  Returned(d.self, Dyadic(FALSE, RoundNearestEven(d.ret, 24), F32_DIV_LOG2), d.draws)

\* `w as f64` for an i64 bit pattern, before the division.
I64AsF64(w) ==
  IF w[8] >= 128
    THEN Dyadic(TRUE, RoundNearestEven(WrappingSub(FromInt(0, 8), w, 8), 53), 0)
    ELSE Dyadic(FALSE, RoundNearestEven(w, 53), 0)

\* n / F64_DIV
DivF64(n) == Dyadic(n.neg, n.num, F64_DIV_LOG2)

\* Mutant of F64OfDraws: the high draw is shifted by 28 instead of 27.
F64OfDrawsShift28(hi, lo) ==
  Returned(lo.self,
           DivF64(I64AsF64(WrappingAdd(ShiftLeft(hi.ret, 28), lo.ret, 8))),
           hi.draws + lo.draws)

\* Random::next_f64, given its two draws: (high.wrapping_add(low) as f64) / F64_DIV.
F64OfDraws(hi, lo) ==
  Returned(lo.self,
           DivF64(I64AsF64(WrappingAdd(ShiftLeft(hi.ret, 27), lo.ret, 8))),
           hi.draws + lo.draws)

\* Random::next_f64 after its first draw, next(26): the second is next(27).
F64AfterHigh(hi) == F64OfDraws(hi, next(hi.self, 27))

\* Random::next_f64
next_f64(self) == F64AfterHigh(next(self, 26))

\* The width, in bytes, of the exact squares and sums behind s = x*x + y*y.
WIDE == 14

\* 2.0 * f - 1.0 for f = n / 2^53 in [0, 1): (2n - 2^53) / 2^53, rounded to f64.
Difference(twice, one, neg) ==
  Dyadic(neg,
         RoundNearestEven(IF neg THEN WrappingSub(one, twice, WIDE)
                                 ELSE WrappingSub(twice, one, WIDE), 53),
         F64_DIV_LOG2)

MinusOne(twice, one) == Difference(twice, one, Cmp(twice, one) < 0)

TwoFMinusOne(f) ==
  MinusOne(ShiftLeft(Resize(f.num, WIDE), 1), ShiftLeft(FromInt(1, WIDE), F64_DIV_LOG2))

\* x * x on f64, for x of exponent 53: the exact square rounded to f64.
SquareF64(x) == Dyadic(FALSE, RoundNearestEven(WrappingMul(x.num, x.num, WIDE), 53), 2 * x.exp)

\* p + q on non-negative f64 of equal exponent.
AddF64(p, q) == Dyadic(FALSE, RoundNearestEven(WrappingAdd(p.num, q.num, WIDE), 53), p.exp)

\* s >= 1.0 and s == 0.0 for a non-negative f64.
GeOne(s) == Cmp(s.num, ShiftLeft(FromInt(1, WIDE), s.exp)) >= 0

EqZero(s) == IsZero(s.num)

\* The closure next_candidate of next_gaussian_pair: ret is [v, s].
\* (v, v.0*v.0 + v.1*v.1) for v = (x, y)
CandidateOf(x, y) == [v |-> <<x, y>>, s |-> AddF64(SquareF64(x), SquareF64(y))]

CandidateOfDraws(f0, f1) ==
  Returned(f1.self, CandidateOf(TwoFMinusOne(f0.ret), TwoFMinusOne(f1.ret)), f0.draws + f1.draws)

CandidateAfterFirst(f0) == CandidateOfDraws(f0, next_f64(f0.self))

next_candidate(self) == CandidateAfterFirst(next_f64(self))

\* A result with the draws made before it counted in.
AfterDraws(r, draws) == Returned(r.self, r.ret, draws + r.draws)

\* The loop of next_gaussian_pair: candidates are redrawn while s >= 1.0 || s == 0.0.
RECURSIVE CandidateLoop(_)
CandidateLoop(c) ==
  IF GeOne(c.ret.s) \/ EqZero(c.ret.s)
    THEN CandidateLoop(AfterDraws(next_candidate(c.self), c.draws))
    ELSE c

\* v * multiplier with multiplier = ((s.log(E) / s) * -2.0).sqrt(): the logarithm and
\* the square root are the platform's, so the product is kept as the pair it is
\* computed from.
Deviate(v, s) == [v |-> v, s |-> s]

\* Random::next_gaussian_pair
PairOf(c) ==
  Returned(c.self, <<Deviate(c.ret.v[1], c.ret.s), Deviate(c.ret.v[2], c.ret.s)>>, c.draws)

next_gaussian_pair(self) == PairOf(CandidateLoop(next_candidate(self)))

\* Mutant of CachePair: the second deviate is returned and the first one cached.
CachePairSwapped(p) ==
  Returned([p.self EXCEPT !.next_gaussian = Some(p.ret[1])], p.ret[2], p.draws)

\* Mutant of CachePair: the deviate that is returned is also the one cached.
CachePairSame(p) ==
  Returned([p.self EXCEPT !.next_gaussian = Some(p.ret[1])], p.ret[1], p.draws)

\* The None arm of next_gaussian: the second deviate is kept, the first returned.
CachePair(p) == Returned([p.self EXCEPT !.next_gaussian = Some(p.ret[2])], p.ret[1], p.draws)

\* Mutant of next_gaussian: the cached deviate is read, not taken.
next_gaussian_reads_cache(self) ==
  IF self.next_gaussian # None
    THEN Returned(self, self.next_gaussian[1], 0)
    ELSE CachePair(next_gaussian_pair(self))

\* Random::next_gaussian
next_gaussian(self) ==
  IF self.next_gaussian # None
    THEN Returned([self EXCEPT !.next_gaussian = None], self.next_gaussian[1], 0)
    ELSE CachePair(next_gaussian_pair(self))

\* ------------------------------------------------------------------------
\* The state machine: one instance, the calls made on it, and what the last
\* call did.
\* ------------------------------------------------------------------------

VARIABLES
  state,            \* Random.state, the 8 bytes of the i64 container
  pending_gaussian, \* Random.next_gaussian, None or Some(deviate)
  overflow_checks,  \* TRUE iff the build panics on integer overflow
  panicked,         \* TRUE iff the last call panicked (the thread unwinds)
  op,               \* the last call: its name,
  arg,              \*   its argument,
  ret,              \*   the value it returned,
  draws,            \*   and the number of next() steps it made
  pre,              \* the instance before the last call
  gaussians,        \* next_gaussian calls completed since new / set_seed
  steps,            \* calls made since construction
  twin,             \* Some(instance built by new(s) at the last set_seed(s) and
                    \*   driven by the same calls since), else None
  twin_ret          \* what the last call returned on the twin

vars == <<state, pending_gaussian, overflow_checks, panicked, op, arg, ret, draws, pre,
          gaussians, steps, twin, twin_ret>>

\* The instance as a value.
Self == [state |-> state, next_gaussian |-> pending_gaussian]

\* Seeds (u64): 0, 23, u64::MAX, and 162683525171787, whose first 31-bit draw is 2^31 - 1.
Seeds ==
  { <<0, 0, 0, 0, 0, 0, 0, 0>>,
    <<23, 0, 0, 0, 0, 0, 0, 0>>,
    <<255, 255, 255, 255, 255, 255, 255, 255>>,
    <<75, 138, 186, 181, 245, 147, 0, 0>> }

\* Seeds handed to set_seed: 42 and one with bits above the 48th.
ReSeeds ==
  { <<42, 0, 0, 0, 0, 0, 0, 0>>,
    <<1, 2, 3, 4, 5, 6, 7, 200>> }

\* Arguments of next: the least, the most, and two that are too many bits.
BitsArgs == {1, 48, 49, 255}

\* Arguments of next_i32_bound: invalid, a power of two, the bound of the crate's
\* test, 2^30 + 1 (nearly half of the draws are rejected), and i32::MAX.
BoundArgs == {-1, 0, 65536, 999999999, 1073741825, I32_MAX}

\* Arguments of next_u32_bound: 0, 999999999, 2^31 and u32::MAX.
UBoundArgs ==
  { <<0, 0, 0, 0>>,
    <<255, 201, 154, 59>>,
    <<0, 0, 0, 128>>,
    <<255, 255, 255, 255>> }

Init ==
  /\ \E seed \in Seeds :
       /\ state = new(seed).state
       /\ pending_gaussian = new(seed).next_gaussian
       /\ arg = seed
       /\ pre = new(seed)
  /\ overflow_checks \in BOOLEAN
  /\ panicked = FALSE
  /\ op = "new"
  /\ ret = NoValue
  /\ draws = 0
  /\ gaussians = 0
  /\ steps = 0
  /\ twin = None
  /\ twin_ret = NoValue

\* One call, F, named `name` with argument a, on the instance (and on its twin).
Apply(name, a, F(_)) ==
  LET r == F(Self)
  IN  /\ ~panicked
      /\ state' = r.self.state
      /\ pending_gaussian' = r.self.next_gaussian
      /\ panicked' = r.panic
      /\ op' = name
      /\ arg' = a
      /\ ret' = r.ret
      /\ draws' = r.draws
      /\ pre' = Self
      /\ steps' = steps + 1
      /\ gaussians' = IF name = "set_seed" THEN 0
                      ELSE IF name = "next_gaussian" THEN gaussians + 1
                      ELSE gaussians
      /\ IF name = "set_seed"
           THEN twin' = Some(new(a)) /\ twin_ret' = NoValue
         ELSE IF twin = None
           THEN twin' = None /\ twin_ret' = NoValue
         ELSE LET t == F(twin[1])
              IN  twin' = Some(t.self) /\ twin_ret' = t.ret
      /\ UNCHANGED overflow_checks

SetSeed ==
  /\ steps < MaxSteps
  /\ \E seed \in ReSeeds : Apply("set_seed", seed, LAMBDA s : set_seed(s, seed))

NextBits ==
  /\ steps < MaxSteps
  /\ \E bits \in BitsArgs : Apply("next", bits, LAMBDA s : next(s, bits))

NextBytes ==
  /\ steps < MaxSteps
  /\ \E n \in 0..MaxBuf : Apply("next_bytes", n, LAMBDA s : next_bytes(s, n))

NextI32 == steps < MaxSteps /\ Apply("next_i32", NoValue, LAMBDA s : next_i32(s))

NextU32 == steps < MaxSteps /\ Apply("next_u32", NoValue, LAMBDA s : next_u32(s))

NextI32Bound ==
  /\ steps < MaxSteps
  /\ \E max \in BoundArgs :
       Apply("next_i32_bound", max, LAMBDA s : next_i32_bound(s, max, overflow_checks))

NextU32Bound ==
  /\ steps < MaxSteps
  /\ \E max \in UBoundArgs :
       Apply("next_u32_bound", max, LAMBDA s : next_u32_bound(s, max, overflow_checks))

NextI64 == steps < MaxSteps /\ Apply("next_i64", NoValue, LAMBDA s : next_i64(s))

NextU64 == steps < MaxSteps /\ Apply("next_u64", NoValue, LAMBDA s : next_u64(s))

NextBool == steps < MaxSteps /\ Apply("next_bool", NoValue, LAMBDA s : next_bool(s))

NextF32 == steps < MaxSteps /\ Apply("next_f32", NoValue, LAMBDA s : next_f32(s))

NextF64 == steps < MaxSteps /\ Apply("next_f64", NoValue, LAMBDA s : next_f64(s))

NextGaussian ==
  steps < MaxSteps /\ Apply("next_gaussian", NoValue, LAMBDA s : next_gaussian(s))

Next ==
  \/ SetSeed
  \/ NextBits
  \/ NextBytes
  \/ NextI32
  \/ NextU32
  \/ NextI32Bound
  \/ NextU32Bound
  \/ NextI64
  \/ NextU64
  \/ NextBool
  \/ NextF32
  \/ NextF64
  \/ NextGaussian

Spec == Init /\ [][Next]_vars

\* The sweeps: next with every number of bits up to MaxBits, and next_i32_bound with
\* every power of two an i32 holds.
SweepBits ==
  /\ steps < SweepDepth
  /\ \E bits \in 0..MaxBits : Apply("next", bits, LAMBDA s : next(s, bits))

SweepPowers ==
  /\ steps < SweepDepth
  /\ \E k \in 0..30 :
       Apply("next_i32_bound", Pow2(k), LAMBDA s : next_i32_bound(s, Pow2(k), overflow_checks))

NextSweep == SweepBits \/ SweepPowers

SpecSweep == Init /\ [][NextSweep]_vars

\* ------------------------------------------------------------------------
\* Reference arithmetic for the properties: the recurrence in integers that do
\* not wrap, and division by a power of two stated by multiplication.
\* ------------------------------------------------------------------------

\* (s * 0x5DEECE66D + 11) mod 2^48: the product and the sum are taken at 16 bytes,
\* where neither wraps, and the remainder is the low 6 bytes.
LcgExact(s) ==
  Resize(Resize(WrappingAdd(WrappingMul(Resize(s, 16), Resize(A, 16), 16), Resize(C, 16), 16), 6), 8)

\* The state n steps of the recurrence after s, an 8-byte word (the test of its width
\* has each state computed before the next one is asked for).
RECURSIVE LcgIter(_, _)
LcgIter(s, n) == IF n = 0 \/ Len(s) # 8 THEN s ELSE LcgIter(LcgExact(s), n - 1)

\* 2^k as a word of n bytes, and a * 2^k at the width of a, by multiplication.
PowWord(k, n) == [i \in 1..n |-> IF i = (k \div 8) + 1 THEN Pow2(k % 8) ELSE 0]

TimesPow2(a, k) == WrappingMul(a, PowWord(k, Len(a)), Len(a))

\* TRUE iff q = floor(a / 2^k), for a below 2^48.
IsFloorDiv(q, a, k) ==
  /\ BitLen(q) <= 48 - k
  /\ Cmp(TimesPow2(q, k), a) <= 0
  /\ BitLen(WrappingSub(a, TimesPow2(q, k), 8)) <= k

\* The 31-bit draw that left the generator in state s, as an integer.
Draw31(s) == ToInt(Resize(ShiftRight(s, 17), 4))

\* log2 of a power of two.
RECURSIVE Log2(_)
Log2(x) == IF x <= 1 THEN 0 ELSE 1 + Log2(x \div 2)

\* TRUE iff the draw `bits` is one the general path of next_i32_bound(max) discards:
\* bits - (bits mod max) + (max - 1) exceeds i32::MAX.
Discarded(bits, max) == bits - (bits % max) > I32_MAX - (max - 1)

\* ------------------------------------------------------------------------
\* Properties.
\* ------------------------------------------------------------------------

\* C1: in every reachable state the upper 16 bits of the 64-bit state are zero
\* (state is in [0, 2^48)), whatever the seed and whatever calls were made.
C1_StateIs48Bits ==
  /\ Len(state) = 8
  /\ \A i \in 1..8 : state[i] \in 0..255
  /\ state[7] = 0
  /\ state[8] = 0

\* C1 witness: a call advanced the state from a value whose exact product with the
\* multiplier is 2^48 or more, so that the mask cut bits off.
C1_Witness ==
  /\ draws > 0
  /\ ~panicked
  /\ BitLen(WrappingMul(Resize(pre.state, 16), Resize(A, 16), 16)) > 48

\* C2: for 1 <= bits <= 48, next(bits) leaves state = (s * 0x5DEECE66D + 11) mod 2^48
\* in exact arithmetic and returns floor(state / 2^(48 - bits)), which is below 2^bits.
C2_NextAdvancesAndExtracts ==
  (op = "next" /\ arg \in 1..48) =>
    /\ ~panicked
    /\ draws = 1
    /\ state = LcgExact(pre.state)
    /\ IsFloorDiv(ret, state, 48 - arg)
    /\ BitLen(ret) <= arg
    /\ pending_gaussian = pre.next_gaussian

\* C2 witness: next(31) on a state whose exact product passes 2^64, so that the
\* 64-bit multiplication wrapped.
C2_Witness ==
  /\ op = "next"
  /\ arg = 31
  /\ ~panicked
  /\ BitLen(WrappingMul(Resize(pre.state, 16), Resize(A, 16), 16)) > 64

\* C3: next_i32_bound(max) with 0 < max <= 2^31 - 1 never returns a value outside
\* [0, max), on the power-of-two path and on the rejection path.
C3_BoundInRange ==
  (op = "next_i32_bound" /\ arg > 0 /\ ~panicked) => (ret >= 0 /\ ret < arg)

\* C3 witness: the rejection path returned after discarding at least one draw.
C3_Witness ==
  /\ op = "next_i32_bound"
  /\ arg > 0
  /\ ~is_power_of_two(arg)
  /\ ~panicked
  /\ draws >= 2

\* C4: an invalid argument (next with more than 48 bits, next_i32_bound with max <= 0,
\* next_u32_bound with max = 0 or max >= 2^31) makes the call panic with state and
\* the cached deviate as they were before the call.
C4_InvalidArgumentAbortsUnchanged ==
  /\ (op = "next" /\ arg > 48) => (panicked /\ Self = pre /\ draws = 0)
  /\ (op = "next_i32_bound" /\ arg <= 0) => (panicked /\ Self = pre /\ draws = 0)
  /\ (op = "next_u32_bound" /\ (IsZero(arg) \/ arg[4] >= 128)) =>
       (panicked /\ Self = pre /\ draws = 0)

\* C4 witness: next(49) panicked on an instance that earlier calls had advanced.
C4_Witness ==
  /\ op = "next"
  /\ arg = 49
  /\ panicked
  /\ steps >= 2

\* (seed XOR 0x5DEECE66D) mod 2^48, the remainder taken as the low 6 bytes.
ScrambleExact(seed) == Resize(Resize(XorWord(seed, A), 6), 8)

\* C5: set_seed(s), on an instance in any state and with or without a cached deviate,
\* leaves state = (s XOR 0x5DEECE66D) mod 2^48 and no cached deviate, as new(s) does,
\* and every later call returns on it what it returns on an instance built by new(s).
C5_SetSeedEqualsNew ==
  /\ op = "set_seed" =>
       /\ ~panicked
       /\ state = ScrambleExact(arg)
       /\ pending_gaussian = None
       /\ Self = new(arg)
  /\ twin # None =>
       /\ twin[1] = Self
       /\ twin_ret = ret

\* C5 witness: set_seed on an instance that had advanced and held a cached deviate.
C5_Witness ==
  /\ op = "set_seed"
  /\ pre.next_gaussian # None
  /\ pre.state # state

\* TRUE iff the deviate d carries v = 2.0 * f - 1.0 for the f64 f = n / 2^53 whose
\* numerator n is the top 26 bits of the state sa times 2^27 plus the top 27 bits of
\* the state sb: n is recovered from v as (2^53 - |v|) / 2 or (2^53 + |v|) / 2.
TwiceNumerator(d) ==
  IF d.v.neg
    THEN WrappingSub(PowWord(53, WIDE), d.v.num, WIDE)
    ELSE WrappingAdd(PowWord(53, WIDE), d.v.num, WIDE)

IsDeviateOfDraws(d, sa, sb) ==
  LET n  == Resize(ShiftRight(TwiceNumerator(d), 1), 8)
      hi == ShiftRight(n, 27)
  IN  /\ d.v.exp = 53
      /\ Len(d.v.num) = WIDE
      /\ BitLen(d.v.num) <= 54
      /\ d.v.neg => ~IsZero(d.v.num)
      /\ TwiceNumerator(d)[1] % 2 = 0
      /\ BitLen(n) <= 53
      /\ IsFloorDiv(hi, sa, 22)
      /\ IsFloorDiv(WrappingSub(n, TimesPow2(hi, 27), 8), sb, 21)

\* C6: the cache is non-empty exactly after an odd number of next_gaussian calls since
\* new / set_seed; a call that finds it empty makes 4 draws per candidate (one
\* candidate or more), returns the first deviate of the accepted candidate (built from
\* the first two of its last four draws) and caches the second (built from the last
\* two); a call that finds it non-empty returns the cached deviate, empties the
\* cache and leaves the state alone.
C6_GaussianPairing ==
  /\ (pending_gaussian # None) <=> (gaussians % 2 = 1)
  /\ (op = "next_gaussian" /\ pre.next_gaussian = None) =>
       /\ ~panicked
       /\ draws >= 4
       /\ draws % 4 = 0
       /\ state = LcgIter(pre.state, draws)
       /\ pending_gaussian # None
       /\ Len(pending_gaussian) = 1
       /\ pending_gaussian[1].s = ret.s
       /\ ~GeOne(ret.s)
       /\ ~EqZero(ret.s)
       /\ IsDeviateOfDraws(ret, LcgIter(pre.state, draws - 3), LcgIter(pre.state, draws - 2))
       /\ IsDeviateOfDraws(pending_gaussian[1],
                           LcgIter(pre.state, draws - 1), LcgIter(pre.state, draws))
  /\ (op = "next_gaussian" /\ pre.next_gaussian # None) =>
       /\ ~panicked
       /\ draws = 0
       /\ state = pre.state
       /\ ret = pre.next_gaussian[1]
       /\ pending_gaussian = None

\* C6 witness: the second next_gaussian call of a pair.
C6_Witness ==
  /\ op = "next_gaussian"
  /\ pre.next_gaussian # None
  /\ gaussians = 2
  /\ draws = 0

\* C7, as claimed: for max a power of two the fast path returns what the general
\* computation gives the same draw b, b mod max (b is not discarded).
C7_FastPathEqualsModulo ==
  (op = "next_i32_bound" /\ is_power_of_two(arg) /\ ~panicked) =>
    /\ ~Discarded(Draw31(state), arg)
    /\ ret = Draw31(state) % arg

\* C7, amended: for max = 2^k the fast path returns floor(b / 2^(31 - k)), the top k
\* bits of the draw b, a value in [0, max); the general computation gives the same
\* draw its low k bits, b mod max, which it does not discard.
C7_FastPathTopBits ==
  (op = "next_i32_bound" /\ is_power_of_two(arg) /\ ~panicked) =>
    /\ draws = 1
    /\ state = LcgExact(pre.state)
    /\ ret = (IF arg = 1 THEN 0 ELSE Draw31(state) \div Pow2(31 - Log2(arg)))
    /\ ret >= 0
    /\ ret < arg
    /\ ~Discarded(Draw31(state), arg)

\* C7 witness: a power of two for which the top bits and the low bits of the draw differ.
C7_Witness ==
  /\ op = "next_i32_bound"
  /\ arg = 65536
  /\ ~panicked
  /\ ret # Draw31(state) % arg

\* C8: next_f32 returns next(24) / 2^24 and next_f64 returns
\* ((next(26) << 27) + next(27)) / 2^53, the 26-bit draw taken first; the numerators
\* are below 2^24 and 2^53, so that both values are in [0.0, 1.0).
C8_FloatRange ==
  /\ op = "next_f32" =>
       /\ ~panicked
       /\ state = LcgExact(pre.state)
       /\ ~ret.neg
       /\ ret.exp = 24
       /\ IsFloorDiv(ret.num, state, 24)
       /\ BitLen(ret.num) <= 24
  /\ op = "next_f64" =>
       /\ ~panicked
       /\ state = LcgExact(LcgExact(pre.state))
       /\ ~ret.neg
       /\ ret.exp = 53
       /\ BitLen(ret.num) <= 53
       /\ IsFloorDiv(ShiftRight(ret.num, 27), LcgExact(pre.state), 22)
       /\ IsFloorDiv(WrappingSub(ret.num, TimesPow2(ShiftRight(ret.num, 27), 27), 8), state, 21)

\* C8 witness: next_f64 returned a value in [0.5, 1.0).
C8_Witness ==
  /\ op = "next_f64"
  /\ ~panicked
  /\ BitLen(ret.num) = 53

\* C9: next_bytes on a buffer of n bytes makes ceil(n / 4) draws and sets byte i to
\* byte (i mod 4), least significant first, of the 32-bit draw number floor(i / 4);
\* the state is left after the last draw, whatever part of it was used.
C9_NextBytesLayout ==
  op = "next_bytes" =>
    /\ ~panicked
    /\ draws = (arg + 3) \div 4
    /\ Len(ret) = arg
    /\ \A i \in 0..(arg - 1) : ret[i + 1] = LcgIter(pre.state, (i \div 4) + 1)[3 + (i % 4)]
    /\ state = LcgIter(pre.state, draws)
    /\ pending_gaussian = pre.next_gaussian

\* C9 witness: a buffer whose last chunk is partial, filled from two draws.
C9_Witness ==
  /\ op = "next_bytes"
  /\ arg > 4
  /\ arg % 4 # 0
  /\ draws = 2

\* C10, as claimed: on the general path of next_i32_bound a draw is discarded exactly
\* when bits - val + (max - 1) exceeds i32::MAX, no such draw aborts the call, and the
\* call returns the val of the first draw that is not discarded.
C10_RejectionRedrawsNeverAborts ==
  (op = "next_i32_bound" /\ arg > 0 /\ ~is_power_of_two(arg)) =>
    /\ ~panicked
    /\ draws >= 1
    /\ \A k \in 1..(draws - 1) : Discarded(Draw31(LcgIter(pre.state, k)), arg)
    /\ ~Discarded(Draw31(LcgIter(pre.state, draws)), arg)
    /\ ret = Draw31(LcgIter(pre.state, draws)) % arg
    /\ state = LcgIter(pre.state, draws)

\* What the code does instead in a build with overflow checks: the first draw the
\* claim has discarded panics; without them the claimed behaviour holds.
C10_RejectionPanicsOrRedraws ==
  (op = "next_i32_bound" /\ arg > 0 /\ ~is_power_of_two(arg)) =>
    /\ draws >= 1
    /\ \A k \in 1..(draws - 1) : Discarded(Draw31(LcgIter(pre.state, k)), arg)
    /\ state = LcgIter(pre.state, draws)
    /\ panicked <=> (overflow_checks /\ Discarded(Draw31(state), arg))
    /\ ~panicked =>
         /\ ~Discarded(Draw31(state), arg)
         /\ ret = Draw31(state) % arg

====
